---- MODULE Spec2Model ----
(***************************************************************************)
(* Model of code/inference.py: the Mask R-CNN post-processing pipeline     *)
(* (draw_instance_predictions, the mask merge and the hand-over to the     *)
(* inpainting pipeline) and the statement order of run_inference.          *)
(*                                                                         *)
(* Scale of the model.  The resized image of the program is 256 x 192; the *)
(* model keeps a strip of Width pixels in one row.  Scores and mask        *)
(* probabilities are counted in tenths (0.5 is 5).  A float64 pixel value  *)
(* v of the program is kept as the integer v * 2^N, N the number of        *)
(* instances: every value the loop computes is a multiple of 2^-N, so the  *)
(* representation is exact.                                                *)
(***************************************************************************)
EXTENDS Integers, Sequences, FiniteSets, TLC

VARIABLES
    pc,           \* position in the module / in run_inference / in the direct call
    failure,      \* what raised, "none" while nothing has
    CLASS_NAMES,  \* module global, set at import
    request,      \* what the caller asked for: image path and wished prompt
    orig,         \* the resized source image (run_inference) or the img argument
    masks,        \* output["masks"] > 0.5, one boolean grid per instance
    labels,       \* output["labels"]
    scores,       \* output["scores"], in tenths
    score_thresh, \* the score_thresh argument of draw_instance_predictions
    colors,       \* the colour drawn for each instance that passed the threshold
    result,       \* the array draw_instance_predictions returned
    blended,      \* indices of the instances that reached the blend
    labelsDrawn,  \* one record per cv2.putText call
    merged_mask,  \* np.any(masks, axis=0).astype(np.uint8)
    pipe_input,   \* what the inpainting pipeline was called with
    persisted,    \* the suffixes of the files written so far
    calls,        \* number of invocations of each external model
    trace         \* the stages entered so far

vars == <<pc, failure, CLASS_NAMES, request, orig, masks, labels, scores,
          score_thresh, colors, result, blended, labelsDrawn, merged_mask,
          pipe_input, persisted, calls, trace>>

None == "none"

---------------------------------------------------------------------------
(* Bounds and samples *)

MaxN == 2     \* most instances the detector returns
Width == 2    \* pixels in the strip

Rows == {0}
Cols == 0..(Width - 1)
Pixels == Rows \X Cols
Channels == 1..3

\* The source photograph, already resized: distinct odd and even values.
SourceImage == [p \in Pixels |-> << (37 * p[2] + 1) % 256, (90 * p[2] + 200) % 256, 255 >>]

\* category_id.txt: one "<id> <name>" line each.
CategoryFile == << [id |-> 0, name |-> "background"], [id |-> 1, name |-> "rice"] >>

LabelSamples == {1, 2}
ScoreSamples == {4, 5}
ThresholdSamples == {4, 5, 6}
MaskProbSamples == {5, 6}
ColorSamples == { <<0, 0, 0>>, <<254, 127, 1>>, <<255, 255, 255>> }
PromptSamples == {"scrambled egg", "tofu"}

DefaultScoreThresh == 5
MaskThresh == 5
INPUT_IMAGE == "images/00004520.jpg"

---------------------------------------------------------------------------
(* load_class_names *)

RECURSIVE load_class_names_from(_, _, _)
load_class_names_from(category_file, k, class_names) ==
    IF k > Len(category_file) THEN class_names
    ELSE load_class_names_from(category_file, k + 1,
                               Append(class_names, category_file[k].name))

load_class_names(category_file) == load_class_names_from(category_file, 1, << >>)

---------------------------------------------------------------------------
(* draw_instance_predictions *)

RandInt_inclusive(low, high) == low..high

\* np.random.randint(low, high): high is exclusive.
RandInt(low, high) == low..(high - 1)

\* The colours np.random.randint(0, 255, (3,)) can return, among the samples.
ColorDraws == {c \in ColorSamples : \A j \in Channels : c[j] \in RandInt(0, 255)}

ScoreRejected_strict(score, thresh) == score <= thresh

\* `if scores[i] < score_thresh: continue`
ScoreRejected(score, thresh) == score < thresh

RECURSIVE Pow2(_)
Pow2(n) == IF n = 0 THEN 1 ELSE 2 * Pow2(n - 1)

\* uint8 image -> float64 buffer (fixed point, scale sc).
ToFloat(img, sc) == [p \in Pixels |-> [j \in Channels |-> img[p][j] * sc]]

Blend_fullSource(buf, mask, color, sc) ==
    [p \in Pixels |->
        IF mask[p] THEN [j \in Channels |-> buf[p][j] + (color[j] * sc) \div 2]
        ELSE buf[p]]

\* np.where(mask[:, :, None], img * 0.5 + color_mask * 0.5, img)
Blend(buf, mask, color, sc) ==
    [p \in Pixels |->
        IF mask[p] THEN [j \in Channels |-> (buf[p][j] + color[j] * sc) \div 2]
        ELSE buf[p]]

\* img.astype(np.uint8): truncation.
AsUint8(buf, sc) == [p \in Pixels |-> [j \in Channels |-> (buf[p][j] \div sc) % 256]]

Coords(mask) == {p \in Pixels : mask[p]}

RECURSIVE CoordSum(_, _)
CoordSum(S, k) == IF S = {} THEN 0
                  ELSE LET p == CHOOSE p \in S : TRUE IN p[k] + CoordSum(S \ {p}, k)

\* coords.mean(axis=0).astype(int): <<y_center, x_center>>
Centroid(mask) ==
    LET cs == Coords(mask) IN
    << CoordSum(cs, 1) \div Cardinality(cs), CoordSum(cs, 2) \div Cardinality(cs) >>

Digits == << "0", "1", "2", "3", "4", "5", "6", "7", "8", "9" >>

\* str(n) of a non-negative integer.
RECURSIVE DecimalString(_)
DecimalString(n) == IF n < 10 THEN Digits[n + 1]
                    ELSE DecimalString(n \div 10) \o Digits[(n % 10) + 1]

LabelText_oneBased(class_names, label) ==
    IF label < Len(class_names) THEN class_names[label] ELSE DecimalString(label)

\* CLASS_NAMES[labels[i]] if labels[i] < len(CLASS_NAMES) else str(labels[i])
LabelText(class_names, label) ==
    IF label < Len(class_names) THEN class_names[label + 1] ELSE DecimalString(label)

\* The pixels cv2.putText paints for `text` with its origin (bottom-left
\* corner) at column x, row y: at the model's scale one pixel per character,
\* running to the right of the origin, clipped to the image.
TextInk(text, x, y) == {p \in Pixels : p[1] = y /\ p[2] >= x /\ p[2] < x + Len(text)}

\* cv2.putText(img, label, (x_center, y_center), ..., (0, 0, 0), ...)
PutText(buf, text, x, y) ==
    [p \in Pixels |-> IF p \in TextInk(text, x, y) THEN [j \in Channels |-> 0] ELSE buf[p]]

\* The loop of draw_instance_predictions from instance i on. acc.img is the
\* current img, acc.blended and acc.labelsDrawn record what the loop did.
RECURSIVE draw_loop(_, _, _, _, _, _, _)
draw_loop(i, acc, ms, ls, ss, cols, thresh) ==
    IF i > Len(ms) THEN acc
    ELSE IF ScoreRejected(ss[i], thresh)
         THEN draw_loop(i + 1, acc, ms, ls, ss, cols, thresh)
    ELSE LET sc == Pow2(Len(ms))
             img1 == Blend(acc.img, ms[i], cols[i], sc)
             acc1 == [acc EXCEPT !.img = img1, !.blended = @ \cup {i}]
         IN IF Coords(ms[i]) = {}
            THEN draw_loop(i + 1, acc1, ms, ls, ss, cols, thresh)
            ELSE LET c == Centroid(ms[i])
                     label == LabelText(CLASS_NAMES, ls[i])
                     acc2 == [acc1 EXCEPT
                                !.img = PutText(img1, label, c[2], c[1]),
                                !.labelsDrawn = @ \cup
                                    {[i |-> i, text |-> label, x |-> c[2], y |-> c[1]]}]
                 IN draw_loop(i + 1, acc2, ms, ls, ss, cols, thresh)

draw_instance_predictions(img, ms, ls, ss, cols, thresh) ==
    LET sc == Pow2(Len(ms))
        acc == draw_loop(1, [img |-> ToFloat(img, sc), blended |-> {}, labelsDrawn |-> {}],
                         ms, ls, ss, cols, thresh)
    IN [img |-> AsUint8(acc.img, sc), blended |-> acc.blended,
        labelsDrawn |-> acc.labelsDrawn]

\* The instances for which the loop draws a colour.
Passing(ss, thresh) == {i \in 1..Len(ss) : ~ScoreRejected(ss[i], thresh)}

---------------------------------------------------------------------------
(* run_inference and run_inpainting *)

\* output["masks"].squeeze(1).cpu().numpy() > 0.5
ThresholdMasks(raw) == [i \in 1..Len(raw) |-> [p \in Pixels |-> raw[i][p] > MaskThresh]]

MergeMasks_xor(ms) ==
    [p \in Pixels |-> Cardinality({i \in 1..Len(ms) : ms[i][p]}) % 2]

MergeMasks_all(ms) ==
    [p \in Pixels |-> IF \A i \in 1..Len(ms) : ms[i][p] THEN 1 ELSE 0]

MergeMasks_thresholded(ms) ==
    [p \in Pixels |->
        IF \E i \in 1..Len(ms) : ms[i][p] /\ scores[i] >= DefaultScoreThresh THEN 1 ELSE 0]

RECURSIVE OrReduce(_, _, _)
OrReduce(ms, k, acc) ==
    IF k > Len(ms) THEN acc
    ELSE OrReduce(ms, k + 1, [p \in Pixels |-> acc[p] \/ ms[k][p]])

\* np.any(masks, axis=0).astype(np.uint8)
MergeMasks(ms) ==
    LET any == OrReduce(ms, 1, [p \in Pixels |-> FALSE])
    IN [p \in Pixels |-> IF any[p] THEN 1 ELSE 0]

\* user_prompt = "scrambled egg"
user_prompt == "scrambled egg"

InpaintArgs_result(original_img, drawn, binary_mask, prompt) ==
    [image |-> drawn, mask_image |-> [p \in Pixels |-> (binary_mask[p] * 255) % 256],
     prompt |-> prompt]

\* run_inpainting(orig, merged_mask, user_prompt, ...): image_pil, mask_pil
\* and the prompt as the pipeline receives them.
InpaintArgs(original_img, drawn, binary_mask, prompt) ==
    [image |-> original_img, mask_image |-> [p \in Pixels |-> (binary_mask[p] * 255) % 256],
     prompt |-> prompt]

Successor_backtrack(at) ==
    CASE at = "import" -> "idle"
      [] at = "idle" -> "get_model"
      [] at = "get_model" -> "open_image"
      [] at = "open_image" -> "detect"
      [] at = "detect" -> "draw"
      [] at = "draw" -> "merge"
      [] at = "merge" -> "load_pipe"
      [] at = "load_pipe" -> "run_pipe"
      [] at = "run_pipe" -> "detect"

\* The statement order of the module and of run_inference / run_inpainting.
Successor(at) ==
    CASE at = "import" -> "idle"
      [] at = "idle" -> "get_model"
      [] at = "get_model" -> "open_image"
      [] at = "open_image" -> "detect"
      [] at = "detect" -> "draw"
      [] at = "draw" -> "merge"
      [] at = "merge" -> "load_pipe"
      [] at = "load_pipe" -> "run_pipe"
      [] at = "run_pipe" -> "done"

\* The pipeline stage a position belongs to.
Stage(at) ==
    CASE at \in {"import", "idle"} -> "Idle"
      [] at \in {"get_model", "open_image", "detect"} -> "Detecting"
      [] at = "draw" -> "Visualizing"
      [] at = "merge" -> "MergingRegion"
      [] at \in {"load_pipe", "run_pipe"} -> "Inpainting"
      [] at = "done" -> "Done"
      [] at = "failed" -> "Failed"

Enter(tr, at) == IF tr[Len(tr)] = Stage(at) THEN tr ELSE Append(tr, Stage(at))

\* The suffixes of the files written so far: none.
NoFiles == {}

Persist_samePath(files, suffix) == files \cup {"_inpainted"}

\* cv2.imwrite(path, ...) / result.save(path) of the file with this suffix
Persist(files, suffix) == files \cup {suffix}

Init ==
    /\ pc = "import"
    /\ failure = None
    /\ CLASS_NAMES = << >>
    /\ request = None
    /\ orig = None
    /\ masks = << >>
    /\ labels = << >>
    /\ scores = << >>
    /\ score_thresh = None
    /\ colors = << >>
    /\ result = None
    /\ blended = {}
    /\ labelsDrawn = {}
    /\ merged_mask = None
    /\ pipe_input = None
    /\ persisted = NoFiles
    /\ calls = [detector |-> 0, inpainter |-> 0]
    /\ trace = << "Idle" >>

Advance == /\ pc' = Successor(pc)
           /\ trace' = Enter(trace, Successor(pc))

Raise(cause) == /\ pc' = "failed"
                /\ failure' = cause
                /\ trace' = Enter(trace, "failed")

\* CLASS_NAMES = load_class_names(CATEGORY_PATH), at import
LoadClassNamesOk ==
    /\ pc = "import"
    /\ CLASS_NAMES' = load_class_names(CategoryFile)
    /\ Advance
    /\ UNCHANGED <<failure, request, orig, masks, labels, scores, score_thresh, colors,
                   result, blended, labelsDrawn, merged_mask, pipe_input, persisted, calls>>

\* open(category_file) raises: the module does not import
LoadClassNamesMissing ==
    /\ pc = "import"
    /\ Raise("category_file")
    /\ UNCHANGED <<CLASS_NAMES, request, orig, masks, labels, scores, score_thresh, colors,
                   result, blended, labelsDrawn, merged_mask, pipe_input, persisted, calls>>

\* run_inference(image_path): the caller's wished prompt has no parameter to
\* travel in.
StartRun ==
    /\ pc = "idle"
    /\ \E prompt \in PromptSamples :
          request' = [image_path |-> INPUT_IMAGE, prompt |-> prompt]
    /\ Advance
    /\ UNCHANGED <<failure, CLASS_NAMES, orig, masks, labels, scores, score_thresh, colors,
                   result, blended, labelsDrawn, merged_mask, pipe_input, persisted, calls>>

\* model = get_model()
GetModelOk ==
    /\ pc = "get_model"
    /\ Advance
    /\ UNCHANGED <<failure, CLASS_NAMES, request, orig, masks, labels, scores, score_thresh,
                   colors, result, blended, labelsDrawn, merged_mask, pipe_input, persisted,
                   calls>>

\* torch.load / load_state_dict raises (weights missing or not loadable)
GetModelFail ==
    /\ pc = "get_model"
    /\ Raise("model_weights")
    /\ UNCHANGED <<CLASS_NAMES, request, orig, masks, labels, scores, score_thresh,
                   colors, result, blended, labelsDrawn, merged_mask, pipe_input, persisted,
                   calls>>

\* Image.open(...).convert("RGB").resize(...), then the resized input is saved
OpenImageOk ==
    /\ pc = "open_image"
    /\ orig' = SourceImage
    /\ persisted' = Persist(persisted, "_resized")
    /\ Advance
    /\ UNCHANGED <<failure, CLASS_NAMES, request, masks, labels, scores, score_thresh,
                   colors, result, blended, labelsDrawn, merged_mask, pipe_input, calls>>

\* Image.open raises (no such image)
OpenImageFail ==
    /\ pc = "open_image"
    /\ Raise("source_image")
    /\ UNCHANGED <<CLASS_NAMES, request, orig, masks, labels, scores, score_thresh,
                   colors, result, blended, labelsDrawn, merged_mask, pipe_input, persisted,
                   calls>>

\* output = model([img_tensor])[0] and the four arrays taken from it
DetectOk ==
    /\ pc = "detect"
    /\ calls' = [calls EXCEPT !.detector = @ + 1]
    /\ \E n \in 0..MaxN :
         \E raw \in [1..n -> [Pixels -> MaskProbSamples]],
            ls \in [1..n -> LabelSamples],
            ss \in [1..n -> ScoreSamples] :
            /\ masks' = ThresholdMasks(raw)
            /\ labels' = ls
            /\ scores' = ss
    /\ Advance
    /\ UNCHANGED <<failure, CLASS_NAMES, request, orig, score_thresh, colors, result,
                   blended, labelsDrawn, merged_mask, pipe_input, persisted>>

\* the detector raises
DetectFail ==
    /\ pc = "detect"
    /\ calls' = [calls EXCEPT !.detector = @ + 1]
    /\ Raise("detector_inference")
    /\ UNCHANGED <<CLASS_NAMES, request, orig, masks, labels, scores, score_thresh,
                   colors, result, blended, labelsDrawn, merged_mask, pipe_input, persisted>>

\* result = draw_instance_predictions(orig.copy(), boxes, masks, labels, scores)
\* and cv2.imwrite(output_path, ...)
Visualize ==
    /\ pc = "draw"
    /\ score_thresh' = DefaultScoreThresh
    /\ \E cols \in [Passing(scores, DefaultScoreThresh) -> ColorDraws] :
         LET r == draw_instance_predictions(orig, masks, labels, scores, cols,
                                            DefaultScoreThresh)
         IN /\ colors' = cols
            /\ result' = r.img
            /\ blended' = r.blended
            /\ labelsDrawn' = r.labelsDrawn
            /\ persisted' = Persist(persisted, "_masked")
    /\ Advance
    /\ UNCHANGED <<failure, CLASS_NAMES, request, orig, masks, labels, scores,
                   merged_mask, pipe_input, calls>>

\* merged_mask = np.any(masks, axis=0).astype(np.uint8); run_inpainting is entered
MergeRegion ==
    /\ pc = "merge"
    /\ merged_mask' = MergeMasks(masks)
    /\ Advance
    /\ UNCHANGED <<failure, CLASS_NAMES, request, orig, masks, labels, scores, score_thresh,
                   colors, result, blended, labelsDrawn, pipe_input, persisted, calls>>

\* StableDiffusionInpaintPipeline.from_pretrained(...).to(DEVICE)
LoadPipeOk ==
    /\ pc = "load_pipe"
    /\ Advance
    /\ UNCHANGED <<failure, CLASS_NAMES, request, orig, masks, labels, scores, score_thresh,
                   colors, result, blended, labelsDrawn, merged_mask, pipe_input, persisted,
                   calls>>

\* from_pretrained raises
LoadPipeFail ==
    /\ pc = "load_pipe"
    /\ Raise("inpainter_load")
    /\ UNCHANGED <<CLASS_NAMES, request, orig, masks, labels, scores, score_thresh,
                   colors, result, blended, labelsDrawn, merged_mask, pipe_input, persisted,
                   calls>>

\* result = pipe(prompt=..., image=..., mask_image=...).images[0]; result.save(...)
RunPipeOk ==
    /\ pc = "run_pipe"
    /\ calls' = [calls EXCEPT !.inpainter = @ + 1]
    /\ pipe_input' = InpaintArgs(orig, result, merged_mask, user_prompt)
    /\ persisted' = Persist(persisted, "_inpainted")
    /\ Advance
    /\ UNCHANGED <<failure, CLASS_NAMES, request, orig, masks, labels, scores, score_thresh,
                   colors, result, blended, labelsDrawn, merged_mask>>

\* pipe(...) raises
RunPipeFail ==
    /\ pc = "run_pipe"
    /\ calls' = [calls EXCEPT !.inpainter = @ + 1]
    /\ pipe_input' = InpaintArgs(orig, result, merged_mask, user_prompt)
    /\ Raise("inpainter_inference")
    /\ UNCHANGED <<CLASS_NAMES, request, orig, masks, labels, scores, score_thresh,
                   colors, result, blended, labelsDrawn, merged_mask, persisted>>

Next ==
    \/ LoadClassNamesOk
    \/ LoadClassNamesMissing
    \/ StartRun
    \/ GetModelOk
    \/ GetModelFail
    \/ OpenImageOk
    \/ OpenImageFail
    \/ DetectOk
    \/ DetectFail
    \/ Visualize
    \/ MergeRegion
    \/ LoadPipeOk
    \/ LoadPipeFail
    \/ RunPipeOk
    \/ RunPipeFail

Spec == Init /\ [][Next]_vars

---------------------------------------------------------------------------
(* draw_instance_predictions called on its own, with any threshold *)

InitDraw ==
    /\ pc = "draw_call"
    /\ failure = None
    /\ CLASS_NAMES = load_class_names(CategoryFile)
    /\ request = None
    /\ orig = SourceImage
    /\ \E n \in 0..MaxN :
          /\ masks \in [1..n -> [Pixels -> BOOLEAN]]
          /\ labels \in [1..n -> LabelSamples]
          /\ scores \in [1..n -> ScoreSamples]
    /\ score_thresh \in ThresholdSamples
    /\ colors = << >>
    /\ result = None
    /\ blended = {}
    /\ labelsDrawn = {}
    /\ merged_mask = None
    /\ pipe_input = None
    /\ persisted = NoFiles
    /\ calls = [detector |-> 0, inpainter |-> 0]
    /\ trace = << "Idle" >>

DrawCall ==
    /\ pc = "draw_call"
    /\ pc' = "draw_return"
    /\ \E cols \in [Passing(scores, score_thresh) -> ColorDraws] :
         LET r == draw_instance_predictions(orig, masks, labels, scores, cols, score_thresh)
         IN /\ colors' = cols
            /\ result' = r.img
            /\ blended' = r.blended
            /\ labelsDrawn' = r.labelsDrawn
    /\ UNCHANGED <<failure, CLASS_NAMES, request, orig, masks, labels, scores, score_thresh,
                   merged_mask, pipe_input, persisted, calls, trace>>

NextDraw == DrawCall

SpecDraw == InitDraw /\ [][NextDraw]_vars

---------------------------------------------------------------------------
(* Properties of draw_instance_predictions (SpecDraw) *)

Returned == pc = "draw_return"

AcceptedAt(t) == {i \in 1..Len(scores) : scores[i] >= t}

Labelled == {r.i : r \in labelsDrawn}

NonEmpty(i) == \E p \in Pixels : masks[i][p]

AllInk == UNION {TextInk(r.text, r.x, r.y) : r \in labelsDrawn}

InAcceptedMask(p) == \E i \in AcceptedAt(score_thresh) : masks[i][p]

\* The indices of S below or at n, in increasing order.
RECURSIVE Ascending(_, _)
Ascending(S, n) == IF n = 0 THEN << >>
                   ELSE IF n \in S THEN Append(Ascending(S, n - 1), n)
                   ELSE Ascending(S, n - 1)

\* The image drawn from the accepted instances alone, with the same colours.
DrawnFromAcceptedOnly ==
    LET idx == Ascending(AcceptedAt(score_thresh), Len(scores))
    IN draw_instance_predictions(orig,
                                 [k \in 1..Len(idx) |-> masks[idx[k]]],
                                 [k \in 1..Len(idx) |-> labels[idx[k]]],
                                 [k \in 1..Len(idx) |-> scores[idx[k]]],
                                 [k \in 1..Len(idx) |-> colors[idx[k]]],
                                 score_thresh).img

\* C1 (as claimed): the instances blended and the instances labelled are both
\* exactly those with scores[i] >= t, and raising t only shrinks the set.
C1_BlendsAndLabelsExactlyAccepted ==
    Returned =>
        /\ blended = AcceptedAt(score_thresh)
        /\ Labelled = AcceptedAt(score_thresh)
        /\ \A t2 \in ThresholdSamples :
              t2 > score_thresh => Passing(scores, t2) \subseteq blended

\* C1 (amended): the instances blended are exactly those with scores[i] >= t,
\* the instances labelled are exactly those of them whose mask has a true
\* pixel, the instances below t leave no trace in the image, and the set
\* included shrinks as t grows.
C1_BlendsAcceptedLabelsNonEmpty ==
    Returned =>
        /\ blended = AcceptedAt(score_thresh)
        /\ Labelled = {i \in AcceptedAt(score_thresh) : NonEmpty(i)}
        /\ result = DrawnFromAcceptedOnly
        /\ \A t2 \in ThresholdSamples :
              /\ t2 > score_thresh => Passing(scores, t2) \subseteq blended
              /\ t2 < score_thresh => blended \subseteq Passing(scores, t2)

C1_Witness ==
    /\ Returned
    /\ \E i, j \in 1..Len(scores) :
          /\ scores[i] = score_thresh /\ NonEmpty(i)
          /\ scores[j] < score_thresh /\ NonEmpty(j)
    /\ result # orig

\* C2 (as claimed): after compositing, every pixel outside the masks of all
\* accepted instances equals the same pixel of the source image.
C2_OutsideAcceptedMasksUntouched ==
    Returned => \A p \in Pixels : ~InAcceptedMask(p) => result[p] = orig[p]

KnownDecimal == (1 :> "1") @@ (2 :> "2") @@ (3 :> "3")

\* C5: every accepted instance with a non-empty mask gets one label, whose
\* text is catalog[labels[i]] for an id within the catalog and the decimal
\* string of the id otherwise.
C5_LabelLookup ==
    Returned =>
        \A i \in AcceptedAt(score_thresh) :
            NonEmpty(i) =>
                /\ Cardinality({r \in labelsDrawn : r.i = i}) = 1
                /\ \A r \in labelsDrawn :
                      r.i = i =>
                        IF labels[i] <= Len(CLASS_NAMES) - 1
                        THEN r.text = CLASS_NAMES[labels[i] + 1]
                        ELSE r.text = KnownDecimal[labels[i]]

C5_Witness ==
    /\ Returned
    /\ \E r1, r2 \in labelsDrawn :
          /\ labels[r1.i] < Len(CLASS_NAMES) /\ r1.text = "rice"
          /\ labels[r2.i] >= Len(CLASS_NAMES) /\ r2.text = "2"

\* The float value of channel ch of pixel p after the blends of the accepted
\* instances i..N, in index order, from value v (scale sc), labels left out.
RECURSIVE BlendFold(_, _, _, _, _)
BlendFold(p, ch, i, v, sc) ==
    IF i > Len(masks) THEN v
    ELSE IF scores[i] >= score_thresh /\ masks[i][p]
         THEN BlendFold(p, ch, i + 1, (v + colors[i][ch] * sc) \div 2, sc)
         ELSE BlendFold(p, ch, i + 1, v, sc)

FoldedPixel(p) ==
    LET sc == Pow2(Len(masks))
    IN [ch \in Channels |-> BlendFold(p, ch, 1, orig[p][ch] * sc, sc) \div sc]

Covering(p) == {i \in AcceptedAt(score_thresh) : masks[i][p]}

---------------------------------------------------------------------------
(* Properties of run_inference (Spec) *)

InpainterRaised == pc = "failed" /\ failure \in {"inpainter_load", "inpainter_inference"}

Detected == pc \in {"draw", "merge", "load_pipe", "run_pipe", "done"} \/ InpainterRaised

AfterDraw == pc \in {"merge", "load_pipe", "run_pipe", "done"} \/ InpainterRaised

AfterMerge == pc \in {"load_pipe", "run_pipe", "done"} \/ InpainterRaised

Invoked == calls.inpainter > 0

\* C3 (as claimed): every true pixel of the mask of an instance below the
\* threshold is true in the merged region and equal to the source in the
\* visualization.
C3_RejectedMaskMergedAndUntouched ==
    AfterMerge =>
        \A i \in 1..Len(masks) :
            scores[i] < score_thresh =>
                \A p \in Pixels :
                    masks[i][p] => merged_mask[p] = 1 /\ result[p] = orig[p]

\* C3 (amended): every true pixel of the mask of an instance below the
\* threshold is true in the merged region, and equal to the source in the
\* visualization wherever no accepted mask covers it and no label is painted.
C3_RejectedMaskMergedUntouchedOffAccepted ==
    AfterMerge =>
        \A i \in 1..Len(masks) :
            scores[i] < score_thresh =>
                \A p \in Pixels :
                    masks[i][p] =>
                        /\ merged_mask[p] = 1
                        /\ (~InAcceptedMask(p) /\ p \notin AllInk) => result[p] = orig[p]

C3_Witness ==
    /\ AfterMerge
    /\ result # orig
    /\ \E i \in 1..Len(masks) :
          /\ scores[i] < score_thresh
          /\ \E p \in Pixels :
                masks[i][p] /\ ~InAcceptedMask(p) /\ p \notin AllInk /\ merged_mask[p] = 1

Permuted(ms, f) == [k \in 1..Len(ms) |-> ms[f[k]]]

\* C4: the merged region is the pixel-wise OR of the masks, whatever their
\* order and however often each occurs, merging it again changes nothing, and
\* with no instance it is all-false over the image's pixels.
C4_MergeIsUnion ==
    AfterMerge =>
        /\ DOMAIN merged_mask = Pixels
        /\ \A p \in Pixels :
              merged_mask[p] = IF \E i \in 1..Len(masks) : masks[i][p] THEN 1 ELSE 0
        /\ \A f \in Permutations(1..Len(masks)) : MergeMasks(Permuted(masks, f)) = merged_mask
        /\ MergeMasks(masks \o masks) = merged_mask
        /\ MergeMasks(<< [p \in Pixels |-> merged_mask[p] = 1] >>) = merged_mask
        /\ Len(masks) = 0 => \A p \in Pixels : merged_mask[p] = 0

C4_Witness ==
    /\ AfterMerge
    /\ Len(masks) = 2
    /\ masks[1] # masks[2]
    /\ \E p \in Pixels : masks[1][p] /\ masks[2][p]
    /\ \E p \in Pixels : masks[1][p] /\ ~masks[2][p]

ZeroInstances == Detected /\ Len(masks) = 0

\* C6: with no instance the run goes on: the visualization equals the source,
\* the merged region is all-false, and the inpainting pipeline is invoked,
\* with an all-false mask; only the inpainting model itself can still fail.
C6_ZeroInstances ==
    ZeroInstances =>
        /\ AfterDraw => result = orig /\ blended = {} /\ labelsDrawn = {}
        /\ AfterMerge => \A p \in Pixels : merged_mask[p] = 0
        /\ Invoked => \A p \in Pixels : pipe_input.mask_image[p] = 0
        /\ pc = "draw" => ENABLED Visualize
        /\ pc = "merge" => ENABLED MergeRegion
        /\ pc = "run_pipe" => ENABLED RunPipeOk
        /\ pc = "done" => Invoked
        /\ pc = "failed" => InpainterRaised

C6_Witness ==
    /\ ZeroInstances
    /\ pc = "done"
    /\ Invoked
    /\ \A p \in Pixels : pipe_input.mask_image[p] = 0

StageOrder == << "Idle", "Detecting", "Visualizing", "MergingRegion", "Inpainting", "Done" >>

\* C7: the stages entered are a prefix of Idle, Detecting, Visualizing,
\* MergingRegion, Inpainting, Done, possibly ended by Failed entered from a
\* non-terminal stage; each model is invoked at most once; the inpainting
\* pipeline is invoked only once the visualization is written and the merged
\* region computed.
C7_LinearSinglePass ==
    /\ \E k \in 1..Len(StageOrder) :
          \/ trace = SubSeq(StageOrder, 1, k)
          \/ k < Len(StageOrder) /\ trace = Append(SubSeq(StageOrder, 1, k), "Failed")
    /\ trace[Len(trace)] = Stage(pc)
    /\ calls.detector <= 1
    /\ calls.inpainter <= 1
    /\ Invoked => "_masked" \in persisted /\ AfterMerge /\ calls.detector = 1
    /\ pc \in {"load_pipe", "run_pipe"} => "_masked" \in persisted

C7_Witness ==
    /\ pc = "done"
    /\ trace = StageOrder
    /\ calls = [detector |-> 1, inpainter |-> 1]

\* C8 (as claimed): a failed run has persisted none of the artifacts.
C8_FailedRunWroteNothing ==
    pc = "failed" => persisted = {}

\* C8 (amended): a failed run ends in Failed after at most one invocation of
\* each model and never writes the synthesized image; it has written nothing
\* if the category file, the weights or the source image failed, the resized
\* source alone if the detector failed, and the resized source and the
\* visualization if the inpainting pipeline failed.
C8_FailedRunWroteEarlierStagesOnly ==
    pc = "failed" =>
        /\ ~ENABLED Next
        /\ calls.detector <= 1 /\ calls.inpainter <= 1
        /\ "_inpainted" \notin persisted
        /\ failure \in {"category_file", "model_weights", "source_image"} => persisted = {}
        /\ failure = "detector_inference" => persisted = {"_resized"}
        /\ InpainterRaised => persisted = {"_resized", "_masked"}

C8_Witness ==
    /\ pc = "failed"
    /\ failure = "inpainter_inference"
    /\ persisted = {"_resized", "_masked"}

\* C9 (as claimed): the pipeline receives the source image as it was before
\* compositing, the merged region of the run's masks, and the prompt of the
\* run request.
C9_RequestPromptHandedOver ==
    Invoked =>
        /\ pipe_input.image = SourceImage
        /\ \A p \in Pixels :
              pipe_input.mask_image[p] = IF \E i \in 1..Len(masks) : masks[i][p] THEN 255 ELSE 0
        /\ pipe_input.prompt = request.prompt

\* C9 (amended): the pipeline receives the source image as it was before
\* compositing, the merged region of the run's masks, and the prompt
\* "scrambled egg", whatever the run request wished.
C9_FixedPromptHandedOver ==
    Invoked =>
        /\ pipe_input.image = SourceImage
        /\ orig = SourceImage
        /\ \A p \in Pixels :
              pipe_input.mask_image[p] = IF \E i \in 1..Len(masks) : masks[i][p] THEN 255 ELSE 0
        /\ pipe_input.prompt = "scrambled egg"

C9_Witness ==
    /\ Invoked
    /\ result # orig
    /\ request.prompt # "scrambled egg"
    /\ \E p \in Pixels : pipe_input.mask_image[p] = 255

====
